---- MODULE Spec2Model ----
(***************************************************************************)
(* Model of the frame-lifecycle layer of the Hotham engine:                *)
(*   hotham/src/engine.rs               Engine::new / update / begin_frame *)
(*                                      / end_frame                        *)
(*   hotham/src/rendering/resources.rs  Resources::new and its buffers     *)
(*   hotham/src/resources/haptic_context.rs   HapticContext                *)
(*   hotham/src/systems/update_rigid_body_transforms.rs                    *)
(*   hotham/src/rendering/light.rs      Light and its constructors         *)
(* XrContext, RenderContext and Buffer are not part of the sources at hand *)
(* and are modelled from the written specification.  Spec is the desktop   *)
(* build (cfg(not(target_os = "android"))), where the quit flag is stored  *)
(* by the Ctrl-C handler on a thread of its own; AndroidSpec is the        *)
(* Android build, where update first processes the platform events.        *)
(***************************************************************************)
EXTENDS Integers, Sequences, FiniteSets, TLC

\* Largest number of runtime events one poll_xr_event call drains.
MaxEvents == 2

\* Largest number of appends tried on a full buffer within one frame.
MaxOverflow == 2

\* Largest number of textures written to the descriptor array.
MaxTextures == 3

\* Largest number of materials added after the default one.
MaxMaterials == 2

\* Largest number of draw-data records appended per frame where the arena is
\* checked together with its textures and materials.
MaxFramePushes == 2

\* Capacities of resources.rs, in elements.
VERTEX_BUFFER_SIZE == 1000000
DRAW_DATA_BUFFER_SIZE == 10000
MATERIAL_BUFFER_SIZE == 10000
SKINS_BUFFER_SIZE == 100

\* xr::SessionState members the driver distinguishes.
SessionStates ==
    {"IDLE", "READY", "SYNCHRONIZED", "VISIBLE", "FOCUSED",
     "STOPPING", "LOSS_PENDING", "EXITING"}

\* Values of HothamResult<(SessionState, SessionState)> returned by update;
\* "none" while no update has returned yet or one is in progress.
Results == {"none", "Ok", "ShuttingDown", "PollError", "SessionBeginError", "EndSessionError"}

VARIABLES
    should_quit,     \* Engine.should_quit (shared AtomicBool)
    session_state,   \* xr_context.session_state
    should_render,   \* xr_context.frame_state.should_render
    pc,              \* tick thread: "ready", "sleeping" (inside sleep of update), "waiting_frame"
                     \* (inside the frame wait of begin_frame), "android_processed", "panicked"
    in_new,          \* TRUE while Engine::new has not returned (initial update pending)
    previous_state,  \* local previous_state of the update call in progress / last made
    polled,          \* <<1 iff the last poll_xr_event returned Ok, number of events it consumed>>
    failure,         \* the call of the last update that returned Err, "none" without one
    result,          \* value returned by the last update call, "none" while it runs
    ret_pair,        \* the pair carried by Ok, <<>> otherwise
    quit_loaded,     \* what the load of line 127 read in the last update: "unreached", "false", "true"
    quit_at_entry,   \* should_quit when the last update call was entered
    quit_in_sleep,   \* the flag was stored while the last update was inside its sleep
    wait_flag,       \* should_render delivered by the frame wait of the last begin_frame, "none" if not reached
    last_call,       \* last engine operation started: "none", "update", "begin_frame", "end_frame"
    prev_frame_call, \* the frame operation (begin_frame/end_frame) made before the last one
    last_frame_call, \* the last frame operation made
    calls,           \* external effects issued by the last engine operation, in order
    draw_data_buffer, \* Resources.draw_data_buffer: [max_len, data], data the records of this frame
    pushes,          \* appends to draw_data_buffer tried since the last per-frame reset
    push_status,     \* outcome of the last append: "none", "ok", "capacity_error"
    push_index,      \* slot index the last successful append returned, -1 without one
    texture_count,   \* Resources.texture_count
    texture_descriptors, \* the texture descriptor array: slot index -> [view, sampler]
    texture_handles, \* the [index, view] of every write_texture_to_array call, in call order
    vertex_buffer,   \* Resources.vertex_buffer
    index_buffer,    \* Resources.index_buffer
    materials_buffer, \* Resources.materials_buffer
    draw_indirect_buffer, \* Resources.draw_indirect_buffer
    skins_buffer,    \* Resources.skins_buffer
    scene_data_buffer, \* Resources.scene_data_buffer
    material_index,  \* slot index the last material added after Resources::new got, -1 without one
    descriptor_writes, \* the <<buffer, binding>> of every update_descriptor_set call, in call order
    left_hand_amplitude_this_frame,  \* HapticContext.left_hand_amplitude_this_frame
    right_hand_amplitude_this_frame, \* HapticContext.right_hand_amplitude_this_frame
    haptic_requested, \* per hand, the amplitudes requested since the driver last ran (NaN left out)
    haptic_delivered, \* the <<hand, amplitude>> handed to the driver when it last ran, in order
    haptic_expected, \* per hand, max of 0 and the requests of the tick the driver last closed
    rigid_bodies, \* PhysicsContext.rigid_bodies: handle -> [position, next_position]
    transforms,   \* the Transform component of every entity that has one
    sync_passes,  \* passes of update_rigid_body_transforms since a body last moved
    light,        \* the Light last constructed
    light_ctor,   \* the constructor that built it, and the glTF kind it was given
    target_os,    \* the cfg(target_os) the engine was built for: "android" or "desktop"
    resumed,      \* Engine.resumed
    looper_waits, \* looper polls of the update call under way that blocked
    render_begun, \* the last begin_frame call invoked the renderer's begin_frame
    android_seen, \* the events the last process_android_events call matched from the
                  \* first Destroy on, in order
    quit_returned, \* an update call has returned ShuttingDown from the quit check
    ok_current    \* kept under ChainSpec: the current state of the last pair an update call
                  \* returned, "none" before one; "unobserved" under the other specifications

vars == <<should_quit, session_state, should_render, pc, in_new, previous_state, polled,
          failure, result, ret_pair, quit_loaded, quit_at_entry, quit_in_sleep, wait_flag,
          last_call, prev_frame_call, last_frame_call, calls,
          draw_data_buffer, pushes, push_status, push_index,
          texture_count, texture_descriptors, texture_handles,
          vertex_buffer, index_buffer, materials_buffer, draw_indirect_buffer, skins_buffer,
          scene_data_buffer, material_index, descriptor_writes,
          left_hand_amplitude_this_frame, right_hand_amplitude_this_frame, haptic_requested,
          haptic_delivered, haptic_expected, rigid_bodies, transforms, sync_passes,
          light, light_ctor, target_os, resumed, looper_waits, render_begun,
          android_seen, quit_returned, ok_current>>

returnVars == <<quit_returned, ok_current>>
updateVars == <<session_state, previous_state, polled, failure, result, ret_pair, quit_loaded,
                quit_at_entry, quit_in_sleep, returnVars>>
frameVars == <<should_render, wait_flag, prev_frame_call, last_frame_call, render_begun>>
androidVars == <<target_os, resumed, looper_waits, android_seen>>
engineVars == <<should_quit, pc, in_new, last_call, calls, updateVars, frameVars, androidVars>>
drawVars == <<draw_data_buffer, pushes, push_status, push_index>>
textureVars == <<texture_count, texture_descriptors, texture_handles>>
materialVars == <<materials_buffer, material_index>>
meshVars == <<vertex_buffer, index_buffer>>
frameBufferVars == <<draw_indirect_buffer, skins_buffer>>
bindingVars == <<scene_data_buffer, descriptor_writes>>
resourceVars == <<drawVars, textureVars, materialVars, meshVars, frameBufferVars, bindingVars>>
hapticVars == <<left_hand_amplitude_this_frame, right_hand_amplitude_this_frame,
                haptic_requested, haptic_delivered, haptic_expected>>
\* Everything outside the engine and the arena.
transformVars == <<rigid_bodies, transforms, sync_passes>>
lightVars == <<light, light_ctor>>
worldVars == <<hapticVars, transformVars, lightVars>>

\* All sequences over S of length at most n.
SeqsUpTo(S, n) == UNION {[1..k -> S] : k \in 0..n}

\* Number of occurrences of x in the sequence s.
Count(s, x) == Cardinality({i \in 1..Len(s) : s[i] = x})

\* XrContext::poll_xr_event on success: every pending event is consumed and the
\* stored state becomes the state of the last one (unchanged without events).
poll_xr_event(state, events) ==
    IF events = <<>> THEN state ELSE events[Len(events)]

\* match_arm with the catch-all Idle arm written above the (STOPPING, IDLE) arm.
match_arm_idle_first(previous, current) ==
    IF current = "IDLE" THEN "sleep"
    ELSE IF previous = "STOPPING" /\ current = "IDLE" THEN "nothing"
    ELSE IF previous = "IDLE" /\ current = "READY" THEN "session_begin"
    ELSE IF current = "EXITING" THEN "shutting_down"
    ELSE IF current = "STOPPING" THEN "end_session"
    ELSE "none"

\* The match of Engine::update, first matching arm wins.
match_arm(previous, current) ==
    IF previous = "STOPPING" /\ current = "IDLE" THEN "nothing"
    ELSE IF current = "IDLE" THEN "sleep"
    ELSE IF previous = "IDLE" /\ current = "READY" THEN "session_begin"
    ELSE IF current = "EXITING" THEN "shutting_down"
    ELSE IF current = "STOPPING" THEN "end_session"
    ELSE "none"

\* quit_check that never reports the flag.
quit_check_never(flag) == "Ok"

\* The quit check closing Engine::update.
quit_check(flag) == IF flag THEN "ShuttingDown" ELSE "Ok"

\* returned_pair reading the stored state twice, after the poll.
returned_pair_current_twice(previous, current) == <<current, current>>

\* The value carried by Ok at the end of Engine::update.
returned_pair(previous, current) == <<previous, current>>

\* propagated_error folding every failure into the shutdown signal.
propagated_error_as_shutdown(call) == "ShuttingDown"

\* The `?` of Engine::update: the Err of the failed call is returned as it is.
propagated_error(call) ==
    CASE call = "poll_xr_event" -> "PollError"
      [] call = "session_begin" -> "SessionBeginError"
      [] call = "end_session"   -> "EndSessionError"

\* engine.update().unwrap() in Engine::new: any Err panics.
unwrap_panics(res) == res # "Ok"

\* Where the tick thread is once update returned res.
AfterReturn(res) ==
    /\ pc' = IF in_new /\ unwrap_panics(res) THEN "panicked" ELSE "ready"
    /\ in_new' = IF res = "Ok" THEN FALSE ELSE in_new

\* Return of update through the quit check of lines 127-131.
ReturnThroughQuitCheck(previous, current) ==
    /\ quit_loaded' = IF should_quit THEN "true" ELSE "false"
    /\ result' = quit_check(should_quit)
    /\ ret_pair' = IF quit_check(should_quit) = "Ok"
                   THEN returned_pair(previous, current) ELSE <<>>
    /\ quit_returned' = (quit_returned \/ quit_check(should_quit) = "ShuttingDown")
    /\ ok_current' = IF ok_current # "unobserved" /\ quit_check(should_quit) = "Ok"
                     THEN returned_pair(previous, current)[2] ELSE ok_current
    /\ AfterReturn(quit_check(should_quit))

\* Return of update before the quit check, with res.
ReturnEarly(res) ==
    /\ quit_loaded' = "unreached"
    /\ result' = res
    /\ ret_pair' = <<>>
    /\ UNCHANGED returnVars
    /\ AfterReturn(res)

\* Buffer::new: an empty buffer of fixed capacity max_len.
buffer_new(max_len) == [max_len |-> max_len, data |-> <<>>]

\* Buffer::push can take one more element.
buffer_has_room(buffer) == Len(buffer.data) < buffer.max_len

\* Buffer::push when there is room: t goes to the slot after the last one.
buffer_push(buffer, t) == [buffer EXCEPT !.data = Append(@, t)]

\* The slot index Buffer::push returns for the element it is about to append.
buffer_push_index(buffer) == Len(buffer.data)

\* The per-frame reset of a buffer: the write cursor goes back to zero.
buffer_clear(buffer) == [buffer EXCEPT !.data = <<>>]

\* new_draw_data_buffer sized with the skins constant.
new_draw_data_buffer_skins_size == buffer_new(SKINS_BUFFER_SIZE)

\* The draw-data buffer as Resources::new creates it.
new_draw_data_buffer == buffer_new(DRAW_DATA_BUFFER_SIZE)

\* The DrawData record of the k-th primitive submitted in a frame (k from 0); records
\* are told apart by the primitive they describe.
DrawData(k) == k

\* The images handed to write_texture_to_array: a plain 2D texture, a two-channel
\* float texture and a cube map.
Images ==
    { [view |-> 1, format |-> "R8G8B8A8_UNORM", layer_count |-> 1],
      [view |-> 2, format |-> "R16G16_SFLOAT", layer_count |-> 1],
      [view |-> 3, format |-> "R8G8B8A8_UNORM", layer_count |-> 6] }

\* An unwritten slot of the texture descriptor array.
NoDescriptor == [view |-> 0, sampler |-> "none"]

\* The sampler write_texture_to_array picks for an image.
sampler_for(image) ==
    IF image.format = "R16G16_SFLOAT" \/ image.layer_count = 6
    THEN "cube_sampler" ELSE "texture_sampler"

\* Descriptors::write_texture_descriptor: slot index of the array takes the image view
\* and the sampler.
write_texture_descriptor(descriptors, view, sampler, index) ==
    [descriptors EXCEPT ![index] = [view |-> view, sampler |-> sampler]]

\* texture_count after an allocation that forgets to advance it.
next_texture_count_stuck(count) == count

\* texture_count after write_texture_to_array (self.texture_count += 1).
next_texture_count(count) == count + 1

\* Material::default(), the material reserved at index 0 (material::NO_MATERIAL).
material_default == "default"

\* The materials a scene adds; one may equal the default one in content.
Materials == {"default", "metal", "cloth"}

\* The material buffer as Resources::new creates it: the default material is pushed first.
new_materials_buffer == buffer_push(buffer_new(MATERIAL_BUFFER_SIZE), material_default)

\* new_descriptor_writes with the bindings of the material and indirect buffers swapped.
new_descriptor_writes_swapped ==
    << <<"draw_data_buffer", 0>>, <<"materials_buffer", 2>>, <<"draw_indirect_buffer", 1>>,
       <<"skins_buffer", 3>>, <<"scene_data_buffer", 4>> >>

\* The update_descriptor_set calls of Resources::new, in order: <<buffer, binding>>.
new_descriptor_writes ==
    << <<"draw_data_buffer", 0>>, <<"materials_buffer", 1>>, <<"draw_indirect_buffer", 2>>,
       <<"skins_buffer", 3>>, <<"scene_data_buffer", 4>> >>

\* new_draw_indirect_buffer sized like the skins buffer.
new_draw_indirect_buffer_skins_size == buffer_new(SKINS_BUFFER_SIZE)

\* The indirect-command buffer as Resources::new creates it.
new_draw_indirect_buffer == buffer_new(MATERIAL_BUFFER_SIZE)

\* The indirect draw command built for the DrawData record at a slot.
DrawIndirectCommand(slot) == [draw_data_index |-> slot]

\* Resources::new: the buffers, the descriptor writes and the texture count it leaves.
resources_new ==
    /\ vertex_buffer = buffer_new(VERTEX_BUFFER_SIZE)
    /\ index_buffer = buffer_new(VERTEX_BUFFER_SIZE)
    /\ draw_data_buffer = new_draw_data_buffer
    /\ materials_buffer = new_materials_buffer
    /\ draw_indirect_buffer = new_draw_indirect_buffer
    /\ skins_buffer = buffer_new(SKINS_BUFFER_SIZE)
    /\ scene_data_buffer = buffer_new(1)
    /\ descriptor_writes = new_descriptor_writes
    /\ texture_count = 0

\* Handedness.
Hands == {"Left", "Right"}

\* f32 amplitudes, in tenths; a NaN request is told by a flag of its own.
Amplitudes == {-1, 0, 1, 2}

\* The largest member of a non-empty set of amplitudes.
MaxOf(S) == CHOOSE x \in S : \A y \in S : y <= x

\* f32 `>`: false when the left operand is NaN.
f32_gt(a, a_is_nan, b) == ~a_is_nan /\ a > b

\* stored_amplitude that takes every request as it comes.
stored_amplitude_overwrite(stored, amplitude, is_nan) == amplitude

\* One arm of request_haptic_feedback: the field after a request.
stored_amplitude(stored, amplitude, is_nan) ==
    IF f32_gt(amplitude, is_nan, stored) THEN amplitude ELSE stored

\* iter_mut yielding the left hand only.
iter_mut_left_only == <<"Left">>

\* HapticContext::iter_mut: the two amplitude fields, left first.
iter_mut == <<"Left", "Right">>

\* HapticContext::default().
haptic_context_default ==
    /\ left_hand_amplitude_this_frame = 0
    /\ right_hand_amplitude_this_frame = 0

\* The most ticks run over one simulation state.
MaxTicks == 4

\* Entities of the world; e1 and e2 hold a RigidBody and a Transform, e3 a Transform only.
Entities == {"e1", "e2", "e3"}

\* RigidBody.handle of the entities that hold a RigidBody.
rigid_body_handle == [e \in {"e1", "e2"} |-> IF e = "e1" THEN 1 ELSE 2]

\* Quaternions <<w, i, j, k>> in halves: <<2, 0, 0, 0>> is the identity, <<2, 2, 2, 2>>
\* has norm 2 and <<0, 0, 4, 0>> has norm 2.
identity_rotation == <<2, 0, 0, 0>>

\* Isometries a body can be at or be sent to: translation and rotation quaternion.
Isometries ==
    { [translation |-> <<0, 0, 0>>, rotation |-> identity_rotation],
      [translation |-> <<1, 2, 3>>, rotation |-> <<2, 2, 2, 2>>],
      [translation |-> <<3, 2, 1>>, rotation |-> <<0, 0, 4, 0>>] }

\* The norm of a quaternion, in halves.
quaternion_norm(q) ==
    LET sq == q[1] * q[1] + q[2] * q[2] + q[3] * q[3] + q[4] * q[4]
    IN CHOOSE n \in 0..sq : n * n <= sq /\ sq < (n + 1) * (n + 1)

\* new_normalize that wraps the quaternion as it is.
new_normalize_unchecked(q) == q

\* UnitQuaternion::new_normalize: the quaternion divided by its norm.
new_normalize(q) == [i \in 1..4 |-> (q[i] * 2) \div quaternion_norm(q)]

\* Transform::default().
transform_default ==
    [translation |-> <<0, 0, 0>>, rotation |-> identity_rotation, scale |-> <<1, 1, 1>>]

\* The body of update_rigid_body_transforms for one entity: the Transform it leaves.
synced_transform(transform, rigid_body) ==
    LET position == rigid_body.position
    IN [transform EXCEPT
          !.translation = <<position.translation[1], position.translation[2],
                            position.translation[3]>>,
          !.rotation = new_normalize(position.rotation)]

\* A u32 as its high and low 16-bit words (0xFFFFFFFF is beyond the checker's integers).
u32(high, low) == <<high, low>>

LIGHT_TYPE_DIRECTIONAL == u32(0, 0)
LIGHT_TYPE_POINT == u32(0, 1)
LIGHT_TYPE_SPOT == u32(0, 2)
\* u32::MAX
LIGHT_TYPE_NONE == u32(65535, 65535)

\* Vec3 arguments of the constructors.
Vec3s == {<<0, 0, 0>>, <<1, 2, 3>>}

\* f32 arguments of the constructors (range, intensity).
F32s == {1, 5}

\* Cone angles, in quarter turns.
ConeAngles == {0, 1, 2}

\* f32::cos of an angle given in quarter turns.
cos(angle) == CASE angle = 0 -> 1 [] angle = 1 -> 0 [] angle = 2 -> -1

\* Node rotations, as the rotation matrix of the quaternion (rows): none, a half turn
\* about Y and a quarter turn about X.
Rotations ==
    { << <<1, 0, 0>>, <<0, 1, 0>>, <<0, 0, 1>> >>,
      << <<-1, 0, 0>>, <<0, 1, 0>>, <<0, 0, -1>> >>,
      << <<1, 0, 0>>, <<0, 0, -1>>, <<0, 1, 0>> >> }

\* Quat * Vec3.
rotate(rotation, v) ==
    [i \in 1..3 |-> rotation[i][1] * v[1] + rotation[i][2] * v[2] + rotation[i][3] * v[3]]

\* Vec3::NEG_Z.
NEG_Z == <<0, 0, -1>>

\* Option<f32>.
OptionF32s == {[is_some |-> FALSE, value |-> 0]} \cup {[is_some |-> TRUE, value |-> v] : v \in F32s}

\* Option::unwrap_or.
unwrap_or(option, default) == IF option.is_some THEN option.value ELSE default

\* gltf::khr_lights_punctual::Kind.
Kinds == {"Directional", "Point", "Spot"}

\* Light::default(), as derived.
light_default ==
    [direction |-> <<0, 0, 0>>, range |-> 0, color |-> <<0, 0, 0>>, intensity |-> 0,
     position |-> <<0, 0, 0>>, inner_cone_cos |-> 0, outer_cone_cos |-> 0, light_type |-> u32(0, 0)]

\* Light::none that leaves the derived type in place.
none_untagged == light_default

\* Light::none.
none == [light_default EXCEPT !.light_type = LIGHT_TYPE_NONE]

\* Light::new_spotlight.
new_spotlight(direction, range, intensity, color, position, inner_cone_angle, outer_cone_angle) ==
    [direction |-> direction, range |-> range, color |-> color, intensity |-> intensity,
     position |-> position, inner_cone_cos |-> cos(inner_cone_angle),
     outer_cone_cos |-> cos(outer_cone_angle), light_type |-> LIGHT_TYPE_SPOT]

\* Light::new_directional.
new_directional(direction, intensity, color) ==
    [light_default EXCEPT !.direction = direction, !.color = color, !.intensity = intensity,
                          !.light_type = LIGHT_TYPE_DIRECTIONAL]

\* Light::new_point.
new_point(position, range, intensity, color) ==
    [light_default EXCEPT !.position = position, !.range = range, !.color = color,
                          !.intensity = intensity, !.light_type = LIGHT_TYPE_POINT]

\* Light::from_gltf, given the glTF light and the node's decomposed transform.
from_gltf(gltf_light, node) ==
    LET rotation == node.rotation
        intensity == gltf_light.intensity
        color == gltf_light.color
        range == unwrap_or(gltf_light.range, -1)
        direction == rotate(rotation, NEG_Z)
        position == node.translation
    IN CASE gltf_light.kind = "Directional" -> new_directional(direction, intensity, color)
         [] gltf_light.kind = "Point" -> new_point(position, range, intensity, color)
         [] gltf_light.kind = "Spot" ->
                new_spotlight(direction, range, intensity, color, position,
                              gltf_light.inner_cone_angle, gltf_light.outer_cone_angle)

\* The most platform events queued, and the most reports of the looper, during one
\* call of process_android_events.
MaxAndroidEvents == 2

ANDROID_LOOPER_ID_MAIN == 0
\* Milliseconds.
ANDROID_LOOPER_NONBLOCKING_TIMEOUT == 0
\* i32::MAX milliseconds.
ANDROID_LOOPER_BLOCKING_TIMEOUT == 2147483647

\* ndk_glue::Event: the three the engine matches, and any other.
AndroidEvents == {"Resume", "Pause", "Destroy", "Other"}

\* What ThreadLooper::poll_all_timeout can report: an event on a file descriptor with
\* its ident, a wake, a callback, an error, or the timeout running out; ready tells
\* whether the report is due when the looper is polled or comes only later.
LooperReports ==
    {[result |-> "Event", ident |-> i, ready |-> b] : i \in {0, 1}, b \in BOOLEAN}
    \cup {[result |-> r, ident |-> 0, ready |-> b] : r \in {"Wake", "Callback", "Err"},
                                                     b \in BOOLEAN}
    \cup {[result |-> "Timeout", ident |-> 0, ready |-> FALSE]}

\* Only an event of the main ident lets poll_android_events ask ndk_glue for an event.
is_main_event(report) ==
    report.result = "Event" /\ report.ident = ANDROID_LOOPER_ID_MAIN

\* The inputs of one call of process_android_events: the events queued in ndk_glue and
\* the reports of the looper.
AndroidInputs ==
    SeqsUpTo(AndroidEvents, MaxAndroidEvents) \X SeqsUpTo(LooperReports, MaxAndroidEvents)

\* poll_android_events: pending are the events queued in ndk_glue, reports what the
\* looper has to report from now on (the timeout running out when there is nothing).
\* A report that is not due is waited for under the blocking timeout and given up for
\* a timeout under the zero timeout. Only an event of the main ident takes an event
\* from the queue; every other report yields None and leaves the queue as it is.
\* waited tells whether poll_all_timeout blocked.
poll_android_events(is_resumed, pending, reports) ==
    LET timeout == IF is_resumed THEN ANDROID_LOOPER_NONBLOCKING_TIMEOUT
                   ELSE ANDROID_LOOPER_BLOCKING_TIMEOUT
        due == IF reports = <<>> THEN [result |-> "Timeout", ident |-> 0, ready |-> FALSE]
               ELSE Head(reports)
        polled_result == IF timeout = 0 /\ ~due.ready THEN "Timeout" ELSE due.result
        rest == IF reports = <<>> \/ (timeout = 0 /\ ~due.ready) THEN reports
                ELSE Tail(reports)
        waited == IF timeout > 0 /\ ~due.ready THEN 1 ELSE 0
    IN  IF polled_result = "Event" /\ is_main_event(due) /\ pending # <<>>
        THEN [event |-> Head(pending), waited |-> waited, pending |-> Tail(pending),
              reports |-> rest]
        ELSE [event |-> "None", waited |-> waited, pending |-> pending, reports |-> rest]

\* The events of seen from the first Destroy on.
from_destroy(seen) ==
    LET at == {i \in 1..Len(seen) : seen[i] = "Destroy"}
    IN  IF at = {} THEN <<>>
        ELSE SubSeq(seen, CHOOSE i \in at : \A j \in at : i <= j, Len(seen))

\* The outcome of a process_android_events call with one more event matched first.
after_event(event, outcome) == [outcome EXCEPT !.seen = <<event>> \o @]

\* process_android_events that goes on polling after a Destroy event.
RECURSIVE process_android_events_through_destroy(_, _, _, _, _)
process_android_events_through_destroy(is_resumed, quit, pending, reports, waits) ==
    LET p == poll_android_events(is_resumed, pending, reports)
        w == waits + p.waited
    IN  CASE p.event = "None" ->
                [resumed |-> is_resumed, should_quit |-> quit, waits |-> w,
                 returned |-> FALSE, seen |-> <<>>, pending |-> p.pending]
          [] p.event = "Resume" ->
                after_event(p.event,
                    process_android_events_through_destroy(TRUE, quit, p.pending, p.reports, w))
          [] p.event = "Pause" ->
                after_event(p.event,
                    process_android_events_through_destroy(FALSE, quit, p.pending, p.reports, w))
          [] p.event = "Destroy" ->
                after_event(p.event,
                    process_android_events_through_destroy(is_resumed, TRUE, p.pending,
                                                           p.reports, w))
          [] OTHER ->
                after_event(p.event,
                    process_android_events_through_destroy(is_resumed, quit, p.pending,
                                                           p.reports, w))

\* process_android_events: the loop over poll_android_events; waits counts the polls
\* that blocked, seen lists the events matched.
RECURSIVE process_android_events(_, _, _, _, _)
process_android_events(is_resumed, quit, pending, reports, waits) ==
    LET p == poll_android_events(is_resumed, pending, reports)
    IN  CASE p.event = "None" ->
                [resumed |-> is_resumed, should_quit |-> quit, waits |-> waits + p.waited,
                 returned |-> FALSE, seen |-> <<>>, pending |-> p.pending]
          [] p.event = "Resume" ->
                after_event(p.event,
                    process_android_events(TRUE, quit, p.pending, p.reports, waits + p.waited))
          [] p.event = "Destroy" ->
                [resumed |-> is_resumed, should_quit |-> TRUE, waits |-> waits + p.waited,
                 returned |-> TRUE, seen |-> <<p.event>>, pending |-> p.pending]
          [] p.event = "Pause" ->
                after_event(p.event,
                    process_android_events(FALSE, quit, p.pending, p.reports, waits + p.waited))
          [] OTHER ->
                after_event(p.event,
                    process_android_events(is_resumed, quit, p.pending, p.reports,
                                           waits + p.waited))

\* Engine::new up to the first update it makes: every field but the quit flag and
\* the resumed flag, which the Android build sets from the platform events.
engine_new ==
    /\ session_state = "IDLE"
    /\ should_render = FALSE
    /\ pc = "ready"
    /\ in_new = TRUE
    /\ previous_state = "IDLE"
    /\ polled = <<0, 0>>
    /\ failure = "none"
    /\ result = "none"
    /\ ret_pair = <<>>
    /\ quit_loaded = "unreached"
    /\ quit_at_entry = FALSE
    /\ quit_in_sleep = FALSE
    /\ wait_flag = "none"
    /\ last_call = "none"
    /\ prev_frame_call = "none"
    /\ last_frame_call = "none"
    /\ calls = <<>>
    /\ resources_new
    /\ pushes = 0
    /\ push_status = "none"
    /\ push_index = -1
    /\ material_index = -1
    /\ haptic_context_default
    /\ haptic_requested = [h \in Hands |-> {}]
    /\ haptic_delivered = <<>>
    /\ haptic_expected = [h \in Hands |-> 0]
    /\ rigid_bodies = [h \in {1, 2} |->
          [position |-> [translation |-> <<0, 0, 0>>, rotation |-> identity_rotation],
           next_position |-> [translation |-> <<0, 0, 0>>, rotation |-> identity_rotation]]]
    /\ transforms = [e \in Entities |-> transform_default]
    /\ sync_passes = 0
    /\ light = light_default
    /\ light_ctor = [name |-> "default", kind |-> "-"]
    /\ texture_descriptors = [i \in 0..MaxTextures |-> NoDescriptor]
    /\ texture_handles = <<>>
    /\ looper_waits = 0
    /\ render_begun = FALSE
    /\ quit_returned = FALSE

Init ==
    /\ target_os = "desktop"
    /\ should_quit = FALSE
    /\ resumed = FALSE
    /\ android_seen = <<>>
    /\ ok_current = "unobserved"
    /\ engine_new

\* The desktop build with the returned pairs observed.
ChainInit ==
    /\ target_os = "desktop"
    /\ should_quit = FALSE
    /\ resumed = FALSE
    /\ android_seen = <<>>
    /\ ok_current = "none"
    /\ engine_new

\* What a call of process_android_events can leave behind, by the resumed flag and the
\* quit flag it starts from, over every input: the two flags, the number of blocking
\* polls, and the events matched from the first Destroy on.
android_outcomes ==
    [is_resumed \in BOOLEAN, quit \in BOOLEAN |->
        {LET out == process_android_events(is_resumed, quit, in[1], in[2], 0)
         IN  [resumed |-> out.resumed, should_quit |-> out.should_quit,
              waits |-> out.waits, seen |-> from_destroy(out.seen)] : in \in AndroidInputs}]

\* The Android build after Engine::new has processed the platform events (line 62).
AndroidInit ==
    /\ target_os = "android"
    /\ \E out \in android_outcomes[FALSE, FALSE] :
          /\ resumed = out.resumed
          /\ should_quit = out.should_quit
          /\ android_seen = out.seen
    /\ ok_current = "unobserved"
    /\ engine_new

\* The Ctrl-C handler registered in Engine::new, run on its own thread.
ctrlc_handler ==
    /\ target_os # "android"
    /\ pc # "panicked"
    /\ should_quit' = TRUE
    /\ quit_in_sleep' = IF pc = "sleeping" THEN TRUE ELSE quit_in_sleep
    /\ UNCHANGED <<session_state, should_render, pc, in_new, previous_state, polled, failure,
                   result, ret_pair, quit_loaded, quit_at_entry, wait_flag, last_call,
                   prev_frame_call, last_frame_call, render_begun, calls, resourceVars, worldVars,
                   androidVars, returnVars>>

\* What every update call does on entry.
UpdateEntry ==
    /\ pc = IF target_os = "android" THEN "android_processed" ELSE "ready"
    /\ last_call' = "update"
    /\ previous_state' = session_state
    /\ quit_at_entry' = should_quit
    /\ quit_in_sleep' = FALSE
    /\ UNCHANGED <<should_quit, frameVars, resourceVars, worldVars, androidVars>>

\* Engine::update when poll_xr_event returns Err: the `?` returns at once; the failed
\* poll is taken to have consumed no event.
update_poll_fails ==
    /\ UpdateEntry
    /\ session_state' = session_state
    /\ polled' = <<0, 0>>
    /\ failure' = "poll_xr_event"
    /\ calls' = <<"poll_xr_event">>
    /\ ReturnEarly(propagated_error("poll_xr_event"))

\* Engine::update when poll_xr_event returns Ok: from the entry to the return, or
\* to the sleep of the Idle arm.
update_polled ==
    /\ UpdateEntry
    /\ \E events \in SeqsUpTo(SessionStates, MaxEvents) :
        LET previous == session_state
            current  == poll_xr_event(session_state, events)
            arm      == match_arm(previous, current)
        IN  /\ session_state' = current
            /\ polled' = <<1, Len(events)>>
            /\ CASE arm = "sleep" ->
                      /\ calls' = <<"poll_xr_event", "sleep">>
                      /\ failure' = "none"
                      /\ pc' = "sleeping"
                      /\ result' = "none"
                      /\ ret_pair' = <<>>
                      /\ quit_loaded' = "unreached"
                      /\ UNCHANGED <<in_new, returnVars>>
                 [] arm \in {"session_begin", "end_session"} ->
                      /\ calls' = <<"poll_xr_event", arm>>
                      /\ \E action_ok \in BOOLEAN :
                            IF action_ok
                            THEN /\ failure' = "none"
                                 /\ ReturnThroughQuitCheck(previous, current)
                            ELSE /\ failure' = arm
                                 /\ ReturnEarly(propagated_error(arm))
                 [] arm = "shutting_down" ->
                      /\ calls' = <<"poll_xr_event">>
                      /\ failure' = "none"
                      /\ ReturnEarly("ShuttingDown")
                 [] OTHER ->
                      /\ calls' = <<"poll_xr_event">>
                      /\ failure' = "none"
                      /\ ReturnThroughQuitCheck(previous, current)

\* Engine::update from the end of its sleep to its return.
update_after_sleep ==
    /\ pc = "sleeping"
    /\ ReturnThroughQuitCheck(previous_state, session_state)
    /\ UNCHANGED <<should_quit, session_state, previous_state, polled, failure, quit_at_entry,
                   quit_in_sleep, last_call, calls, frameVars, resourceVars, worldVars, androidVars>>

\* begin_frame_calls that starts the renderer whatever the flag.
begin_frame_calls_always_render(flag) ==
    <<"sync_actions", "wait_frame", "locate_views", "render_begin_frame">>

\* The external calls of Engine::begin_frame, in order, given the should_render
\* flag the frame wait stored in frame_state.
begin_frame_calls(flag) ==
    <<"sync_actions", "wait_frame", "locate_views">>
    \o (IF flag THEN <<"render_begin_frame">> ELSE <<>>)

\* end_frame_calls that finalizes the renderer whatever the flag.
end_frame_calls_always_finalize(flag) == <<"render_end_frame", "xr_end_frame">>

\* end_frame_calls that returns before the handshake when nothing is rendered.
end_frame_calls_handshake_if_rendering(flag) ==
    IF flag THEN <<"render_end_frame", "xr_end_frame">> ELSE <<>>

\* The external calls of Engine::end_frame, in order, given frame_state.should_render.
end_frame_calls(flag) ==
    (IF flag THEN <<"render_end_frame">> ELSE <<>>) \o <<"xr_end_frame">>

\* Engine::begin_frame from its entry into the frame wait (xr_context.begin_frame),
\* which blocks until the runtime has a frame; sync_ok tells whether the unwrap() of
\* sync_actions passes.
begin_frame ==
    /\ pc = "ready"
    /\ ~in_new
    /\ \E sync_ok \in BOOLEAN :
        /\ calls' = SubSeq(begin_frame_calls(should_render), 1, IF sync_ok THEN 2 ELSE 1)
        /\ pc' = IF sync_ok THEN "waiting_frame" ELSE "panicked"
    /\ last_call' = "begin_frame"
    /\ prev_frame_call' = last_frame_call
    /\ last_frame_call' = "begin_frame"
    /\ wait_flag' = "none"
    /\ render_begun' = FALSE
    /\ UNCHANGED <<should_quit, in_new, should_render, updateVars, resourceVars, worldVars,
                   androidVars>>

\* Engine::begin_frame from the end of the frame wait to its return; failed_at is the
\* unwrap() that panics (2 the frame wait, 3 locate_views), 0 when none does.
begin_frame_after_wait ==
    /\ pc = "waiting_frame"
    /\ \E failed_at \in {0, 2, 3}, flag \in BOOLEAN :
        /\ IF failed_at = 2
           THEN /\ should_render' = should_render
                /\ wait_flag' = "none"
                /\ calls' = SubSeq(begin_frame_calls(should_render), 1, 2)
                /\ pc' = "panicked"
           ELSE /\ should_render' = flag
                /\ wait_flag' = IF flag THEN "true" ELSE "false"
                /\ calls' = IF failed_at = 3
                            THEN SubSeq(begin_frame_calls(flag), 1, 3)
                            ELSE begin_frame_calls(flag)
                /\ pc' = IF failed_at = 3 THEN "panicked" ELSE "ready"
        /\ render_begun' = (Count(calls', "render_begin_frame") > 0)
    /\ UNCHANGED <<should_quit, in_new, last_call, prev_frame_call, last_frame_call, updateVars,
                   resourceVars, worldVars, androidVars>>

\* Engine::end_frame; the unwrap() of the handshake panics when it fails.
end_frame ==
    /\ pc = "ready"
    /\ ~in_new
    /\ \E handshake_ok \in BOOLEAN :
        /\ last_call' = "end_frame"
        /\ prev_frame_call' = last_frame_call
        /\ last_frame_call' = "end_frame"
        /\ calls' = end_frame_calls(should_render)
        /\ pc' = IF handshake_ok THEN "ready" ELSE "panicked"
    /\ UNCHANGED <<should_quit, in_new, should_render, wait_flag, render_begun, updateVars,
                   resourceVars, worldVars, androidVars>>

Next ==
    \/ ctrlc_handler
    \/ update_poll_fails
    \/ update_polled
    \/ update_after_sleep
    \/ begin_frame
    \/ begin_frame_after_wait
    \/ end_frame

Spec == Init /\ [][Next]_vars

\* The first statement of Engine::update on Android (lines 97-98).
update_android_events ==
    /\ target_os = "android"
    /\ pc = "ready"
    /\ \E out \in android_outcomes[resumed, should_quit] :
          /\ resumed' = out.resumed
          /\ should_quit' = out.should_quit
          /\ looper_waits' = out.waits
          /\ android_seen' = out.seen
    /\ pc' = "android_processed"
    /\ last_call' = "update"
    /\ result' = "none"
    /\ UNCHANGED <<target_os, session_state, in_new, previous_state, polled, failure, ret_pair,
                   quit_loaded, quit_at_entry, quit_in_sleep, returnVars, calls, frameVars,
                   resourceVars, worldVars>>

AndroidNext ==
    \/ update_android_events
    \/ update_poll_fails
    \/ update_polled
    \/ update_after_sleep

\* The update loop of the Android build.
AndroidSpec == AndroidInit /\ [][AndroidNext]_vars

PlatformNext ==
    \/ ctrlc_handler
    \/ update_android_events
    \/ update_poll_fails
    \/ update_polled
    \/ update_after_sleep

\* The update loop and the writers of the quit flag, on either build.
PlatformSpec == (Init \/ AndroidInit) /\ [][PlatformNext]_vars

ChainNext ==
    \/ update_poll_fails
    \/ update_polled
    \/ update_after_sleep

\* The update loop of the desktop build, the returned pairs observed.
ChainSpec == ChainInit /\ [][ChainNext]_vars

\* The sleep of update is bounded, so the tick thread always leaves it.
FairSpec == Spec /\ WF_vars(update_after_sleep)

\* reset_for_frame: the write cursor of every linear buffer (vertex, index, draw data,
\* materials, skins, indirect commands) goes back to zero at the start of the frame.
reset_for_frame ==
    /\ vertex_buffer' = buffer_clear(vertex_buffer)
    /\ index_buffer' = buffer_clear(index_buffer)
    /\ draw_data_buffer' = buffer_clear(draw_data_buffer)
    /\ materials_buffer' = buffer_clear(materials_buffer)
    /\ skins_buffer' = buffer_clear(skins_buffer)
    /\ draw_indirect_buffer' = buffer_clear(draw_indirect_buffer)
    /\ pushes' = 0
    /\ push_status' = "none"
    /\ push_index' = -1
    /\ UNCHANGED <<engineVars, worldVars, textureVars, material_index, bindingVars>>

\* push_draw_data: append the record of the next primitive of the frame; a full buffer
\* refuses it with a capacity error and stays as it is.
push_draw_data ==
    /\ pushes < draw_data_buffer.max_len + MaxOverflow
    /\ pushes' = pushes + 1
    /\ IF buffer_has_room(draw_data_buffer)
       THEN /\ draw_data_buffer' = buffer_push(draw_data_buffer, DrawData(pushes))
            /\ push_index' = buffer_push_index(draw_data_buffer)
            /\ push_status' = "ok"
       ELSE /\ draw_data_buffer' = draw_data_buffer
            /\ push_index' = -1
            /\ push_status' = "capacity_error"
    /\ UNCHANGED <<engineVars, worldVars, textureVars, materialVars, meshVars, frameBufferVars,
                   bindingVars>>

\* A primitive drawn by the frame builder: its DrawData record is appended, and the
\* indirect draw command built from the slot returned is appended after it; a full
\* buffer refuses its element and stays as it is.
draw_primitive ==
    /\ pushes < draw_data_buffer.max_len + MaxOverflow
    /\ pushes' = pushes + 1
    /\ IF buffer_has_room(draw_data_buffer)
       THEN /\ draw_data_buffer' = buffer_push(draw_data_buffer, DrawData(pushes))
            /\ push_index' = buffer_push_index(draw_data_buffer)
            /\ push_status' = "ok"
            /\ draw_indirect_buffer' =
                  IF buffer_has_room(draw_indirect_buffer)
                  THEN buffer_push(draw_indirect_buffer,
                                   DrawIndirectCommand(buffer_push_index(draw_data_buffer)))
                  ELSE draw_indirect_buffer
       ELSE /\ draw_data_buffer' = draw_data_buffer
            /\ push_index' = -1
            /\ push_status' = "capacity_error"
            /\ draw_indirect_buffer' = draw_indirect_buffer
    /\ UNCHANGED <<engineVars, worldVars, textureVars, materialVars, meshVars, skins_buffer,
                   bindingVars>>

DrawNext ==
    \/ reset_for_frame
    \/ draw_primitive

\* Frames built primitive by primitive, each with its record and its command.
DrawSpec == Init /\ [][DrawNext]_vars

ResourcesNext ==
    \/ reset_for_frame
    \/ push_draw_data

\* The GPU resource arena on its own: the frame-building thread owns it.
ResourcesSpec == Init /\ [][ResourcesNext]_vars

\* Resources::write_texture_to_array.
write_texture_to_array ==
    /\ texture_count < MaxTextures
    /\ \E image \in Images :
        LET index == texture_count
        IN  /\ texture_descriptors' =
                  write_texture_descriptor(texture_descriptors, image.view,
                                           sampler_for(image), index)
            /\ texture_count' = next_texture_count(texture_count)
            /\ texture_handles' = Append(texture_handles, [index |-> index, view |-> image.view])
    /\ UNCHANGED <<engineVars, worldVars, drawVars, materialVars, meshVars, frameBufferVars, bindingVars>>

\* A material added to the material buffer after Resources::new; its index is what
\* DrawData.material_id refers to.
push_material ==
    /\ Len(materials_buffer.data) <= MaxMaterials
    /\ buffer_has_room(materials_buffer)
    /\ \E material \in Materials :
        /\ materials_buffer' = buffer_push(materials_buffer, material)
        /\ material_index' = buffer_push_index(materials_buffer)
    /\ UNCHANGED <<engineVars, worldVars, drawVars, textureVars, meshVars, frameBufferVars, bindingVars>>

ArenaNext ==
    \/ write_texture_to_array
    \/ push_material
    \/ reset_for_frame
    \/ (pushes < MaxFramePushes /\ push_draw_data)

\* Textures and materials allocated while frames are built and reset.
ArenaSpec == Init /\ [][ArenaNext]_vars

\* HapticContext::request_haptic_feedback.
request_haptic_feedback ==
    /\ \E amplitude \in Amplitudes, is_nan \in BOOLEAN, handedness \in Hands :
        /\ IF handedness = "Left"
           THEN /\ left_hand_amplitude_this_frame' =
                      stored_amplitude(left_hand_amplitude_this_frame, amplitude, is_nan)
                /\ UNCHANGED right_hand_amplitude_this_frame
           ELSE /\ right_hand_amplitude_this_frame' =
                      stored_amplitude(right_hand_amplitude_this_frame, amplitude, is_nan)
                /\ UNCHANGED left_hand_amplitude_this_frame
        /\ haptic_requested' =
              IF is_nan THEN haptic_requested
              ELSE [haptic_requested EXCEPT ![handedness] = @ \cup {amplitude}]
    /\ UNCHANGED <<engineVars, resourceVars, transformVars, lightVars, haptic_delivered,
                   haptic_expected>>

\* The stored amplitude of a hand.
amplitude_of(hand) ==
    IF hand = "Left" THEN left_hand_amplitude_this_frame ELSE right_hand_amplitude_this_frame

\* The platform haptics driver, run once per tick: every amplitude iter_mut yields is
\* handed to the device and set back to zero for the following tick.
apply_haptic_feedback ==
    /\ haptic_delivered' = [i \in 1..Len(iter_mut) |-> <<iter_mut[i], amplitude_of(iter_mut[i])>>]
    /\ left_hand_amplitude_this_frame' =
          IF \E i \in 1..Len(iter_mut) : iter_mut[i] = "Left"
          THEN 0 ELSE left_hand_amplitude_this_frame
    /\ right_hand_amplitude_this_frame' =
          IF \E i \in 1..Len(iter_mut) : iter_mut[i] = "Right"
          THEN 0 ELSE right_hand_amplitude_this_frame
    /\ haptic_expected' = [h \in Hands |-> MaxOf({0} \cup haptic_requested[h])]
    /\ haptic_requested' = [h \in Hands |-> {}]
    /\ UNCHANGED <<engineVars, resourceVars, transformVars, lightVars>>

HapticNext ==
    \/ request_haptic_feedback
    \/ apply_haptic_feedback

\* The haptic context over the ticks: requests, then the driver.
HapticSpec == Init /\ [][HapticNext]_vars

\* RigidBody::set_next_kinematic_position, called by the game on one body.
set_next_kinematic_position ==
    /\ \E handle \in DOMAIN rigid_bodies, position \in Isometries :
          rigid_bodies' = [rigid_bodies EXCEPT ![handle].next_position = position]
    /\ UNCHANGED <<engineVars, resourceVars, hapticVars, lightVars, transforms, sync_passes>>

\* physics_step: every kinematic body moves to its next position.
physics_step ==
    /\ rigid_bodies' = [h \in DOMAIN rigid_bodies |->
                          [rigid_bodies[h] EXCEPT !.position = rigid_bodies[h].next_position]]
    /\ sync_passes' = IF rigid_bodies' = rigid_bodies THEN sync_passes ELSE 0
    /\ UNCHANGED <<engineVars, resourceVars, hapticVars, lightVars, transforms>>

\* One run of the update_rigid_body_transforms system: for_each over the entities
\* holding both a RigidBody and a Transform.
update_rigid_body_transforms ==
    /\ sync_passes < MaxTicks
    /\ transforms' = [e \in Entities |->
          IF e \in DOMAIN rigid_body_handle
          THEN synced_transform(transforms[e], rigid_bodies[rigid_body_handle[e]])
          ELSE transforms[e]]
    /\ sync_passes' = sync_passes + 1
    /\ UNCHANGED <<engineVars, resourceVars, hapticVars, lightVars, rigid_bodies>>

TransformNext ==
    \/ set_next_kinematic_position
    \/ physics_step
    \/ update_rigid_body_transforms

\* The physics world and the transforms over the ticks.
TransformSpec == Init /\ [][TransformNext]_vars

\* A call of Light::none.
call_none ==
    /\ light' = none
    /\ light_ctor' = [name |-> "none", kind |-> "-"]
    /\ UNCHANGED <<engineVars, resourceVars, hapticVars, transformVars>>

\* A call of Light::new_spotlight.
call_new_spotlight ==
    /\ \E direction \in Vec3s, range \in F32s, intensity \in F32s, color \in Vec3s,
          position \in Vec3s, inner_cone_angle \in ConeAngles, outer_cone_angle \in ConeAngles :
          light' = new_spotlight(direction, range, intensity, color, position,
                                 inner_cone_angle, outer_cone_angle)
    /\ light_ctor' = [name |-> "new_spotlight", kind |-> "-"]
    /\ UNCHANGED <<engineVars, resourceVars, hapticVars, transformVars>>

\* A call of Light::new_directional.
call_new_directional ==
    /\ \E direction \in Vec3s, intensity \in F32s, color \in Vec3s :
          light' = new_directional(direction, intensity, color)
    /\ light_ctor' = [name |-> "new_directional", kind |-> "-"]
    /\ UNCHANGED <<engineVars, resourceVars, hapticVars, transformVars>>

\* A call of Light::new_point.
call_new_point ==
    /\ \E position \in Vec3s, range \in F32s, intensity \in F32s, color \in Vec3s :
          light' = new_point(position, range, intensity, color)
    /\ light_ctor' = [name |-> "new_point", kind |-> "-"]
    /\ UNCHANGED <<engineVars, resourceVars, hapticVars, transformVars>>

\* A call of Light::from_gltf.
call_from_gltf ==
    /\ \E kind \in Kinds, intensity \in F32s, color \in Vec3s, range \in OptionF32s,
          inner_cone_angle \in ConeAngles, outer_cone_angle \in ConeAngles,
          translation \in Vec3s, rotation \in Rotations :
          /\ light' = from_gltf([kind |-> kind, intensity |-> intensity, color |-> color,
                                 range |-> range, inner_cone_angle |-> inner_cone_angle,
                                 outer_cone_angle |-> outer_cone_angle],
                                [translation |-> translation, rotation |-> rotation])
          /\ light_ctor' = [name |-> "from_gltf", kind |-> kind]
    /\ UNCHANGED <<engineVars, resourceVars, hapticVars, transformVars>>

LightNext ==
    \/ call_none
    \/ call_new_spotlight
    \/ call_new_directional
    \/ call_new_point
    \/ call_from_gltf

\* Lights as the constructors build them.
LightSpec == Init /\ [][LightNext]_vars

TypeOK ==
    /\ should_quit \in BOOLEAN
    /\ session_state \in SessionStates
    /\ should_render \in BOOLEAN
    /\ pc \in {"ready", "android_processed", "sleeping", "waiting_frame", "panicked"}
    /\ target_os \in {"android", "desktop"}
    /\ resumed \in BOOLEAN
    /\ quit_returned \in BOOLEAN
    /\ ok_current \in SessionStates \cup {"none", "unobserved"}
    /\ in_new \in BOOLEAN
    /\ previous_state \in SessionStates
    /\ failure \in {"none", "poll_xr_event", "session_begin", "end_session"}
    /\ result \in Results
    /\ quit_loaded \in {"unreached", "false", "true"}
    /\ wait_flag \in {"none", "true", "false"}
    /\ last_call \in {"none", "update", "begin_frame", "end_frame"}

(***************************************************************************)
(* Properties of Engine::update, begin_frame and end_frame                 *)
(***************************************************************************)

\* An update call has returned and is the last engine operation made.
UpdateReturned == last_call = "update" /\ result # "none"

\* ... and its poll succeeded, so that it observed a (previous, current) pair.
PairObserved == UpdateReturned /\ polled[1] = 1

\* The state-specific calls the last operation issued.
Issued(sleeps, begins, ends) ==
    /\ Count(calls, "sleep") = sleeps
    /\ Count(calls, "session_begin") = begins
    /\ Count(calls, "end_session") = ends

\* The match itself returned the shutdown signal (the quit check was not reached).
ArmShutdown == result = "ShuttingDown" /\ quit_loaded = "unreached"

\* C1 as stated: every update call that observed a pair performed exactly the action
\* of the first matching row of the table, and a pair outside the (any, EXITING) row
\* yields no shutdown signal.
C1_TableAsStated ==
    PairObserved =>
        LET p == previous_state
            c == session_state
        IN  CASE p = "STOPPING" /\ c = "IDLE" -> Issued(0, 0, 0) /\ result # "ShuttingDown"
              [] p # "STOPPING" /\ c = "IDLE" -> Issued(1, 0, 0) /\ result # "ShuttingDown"
              [] p = "IDLE" /\ c = "READY"    -> Issued(0, 1, 0) /\ result # "ShuttingDown"
              [] c = "EXITING"                -> Issued(0, 0, 0) /\ result = "ShuttingDown"
              [] c = "STOPPING"               -> Issued(0, 0, 1) /\ result # "ShuttingDown"
              [] OTHER                        -> Issued(0, 0, 0) /\ result # "ShuttingDown"

\* C1 amended: every update call that observed a pair issued exactly the sleep, session
\* begin or end-session of the first matching row and no other; the match returns the
\* shutdown signal for (any, EXITING) only; for every other pair the call returns the
\* shutdown signal exactly when the quit check read the flag set.
C1_TableAction ==
    PairObserved =>
        LET p == previous_state
            c == session_state
        IN  /\ CASE p = "STOPPING" /\ c = "IDLE" -> Issued(0, 0, 0) /\ ~ArmShutdown
                 [] p # "STOPPING" /\ c = "IDLE" -> Issued(1, 0, 0) /\ ~ArmShutdown
                 [] p = "IDLE" /\ c = "READY"    -> Issued(0, 1, 0) /\ ~ArmShutdown
                 [] c = "EXITING"                -> Issued(0, 0, 0) /\ ArmShutdown
                 [] c = "STOPPING"               -> Issued(0, 0, 1) /\ ~ArmShutdown
                 [] OTHER                        -> Issued(0, 0, 0) /\ ~ArmShutdown
            /\ (c # "EXITING" => (result = "ShuttingDown" <=> quit_loaded = "true"))

\* C1 witness: an update observed (STOPPING, IDLE), did not sleep and returned Ok.
C1_Witness ==
    /\ PairObserved
    /\ previous_state = "STOPPING"
    /\ session_state = "IDLE"
    /\ result = "Ok"
    /\ calls = <<"poll_xr_event">>

\* C2: every update call entered with the quit flag set returns the shutdown signal,
\* whatever its poll and its state-specific action did.
C2_QuitAlwaysShutsDown ==
    (UpdateReturned /\ quit_at_entry) => result = "ShuttingDown"

\* C3: when the quit flag is stored while update is inside its Idle sleep, that call
\* returns the shutdown signal once the sleep ends (so no later than the next quit
\* check), and no update call entered with the flag set ever returns Ok.
C3_QuitDuringSleep ==
    /\ [](UpdateReturned /\ quit_in_sleep => result = "ShuttingDown")
    /\ [](result = "Ok" => ~quit_at_entry)
    /\ ((pc = "sleeping" /\ should_quit) ~> (pc # "sleeping" /\ result = "ShuttingDown"))

\* C3 witness: the flag was stored during the sleep and the call reported shutdown.
C3_Witness ==
    /\ UpdateReturned
    /\ quit_in_sleep
    /\ ~quit_at_entry
    /\ Count(calls, "sleep") = 1
    /\ result = "ShuttingDown"

\* C4: update returns the shutdown signal exactly when it observed EXITING or its quit
\* check read the flag set; a failed poll, session begin or end-session is returned as
\* its own error, never as Ok and never as the shutdown signal.
C4_ShutdownDistinctFromFailure ==
    UpdateReturned =>
        /\ result = "ShuttingDown"
              <=> ((polled[1] = 1 /\ session_state = "EXITING") \/ quit_loaded = "true")
        /\ failure = "poll_xr_event" => result = "PollError"
        /\ failure = "session_begin" => result = "SessionBeginError"
        /\ failure = "end_session" => result = "EndSessionError"
        /\ failure = "none" => result \in {"Ok", "ShuttingDown"}
        /\ result = "Ok" => quit_loaded = "false"

\* C4 witness: the session begin failed while the quit flag was set.
C4_Witness ==
    /\ UpdateReturned
    /\ failure = "session_begin"
    /\ should_quit
    /\ result = "SessionBeginError"

\* C5: a shutdown signal returned by the initial update of Engine::new is handed to the
\* caller and never ends in the panic of a fatal failure.
C5_ShutdownNeverFatal ==
    (in_new /\ pc = "panicked") => result # "ShuttingDown"

\* C6: the stored session state changes only in the step of update that polls, and
\* only when the poll consumed an event; update returns the state stored before the
\* poll as previous and the state the poll produced as current.
C6_StateDrivenByEvents ==
    [][/\ session_state' # session_state =>
            /\ pc = "ready"
            /\ last_call' = "update"
            /\ polled'[1] = 1
            /\ polled'[2] >= 1
       /\ (pc = "ready" /\ last_call' = "update" /\ should_quit' = should_quit
              /\ result' = "Ok") =>
            ret_pair' = <<session_state, session_state'>>
       /\ (pc = "ready" /\ pc' = "sleeping") => previous_state' = session_state
       /\ (pc = "sleeping" /\ result' = "Ok") =>
            ret_pair' = <<previous_state, session_state>>
      ]_vars

\* C6 witness: an update consumed an event that moved the session from IDLE to READY
\* and returned that pair.
C6_Witness ==
    /\ UpdateReturned
    /\ result = "Ok"
    /\ polled[2] >= 1
    /\ ret_pair = <<"IDLE", "READY">>
    /\ session_state = "READY"

\* C7: in a begin_frame call the renderer's begin_frame is invoked only if the frame
\* wait of that call delivered should_render = true; in a call that returns it is
\* invoked exactly then, after the action sync, the frame wait and the view location,
\* which are made whatever the flag.
C7_RenderBeginIffShouldRender ==
    last_call = "begin_frame" =>
        /\ Count(calls, "render_begin_frame") <= 1
        /\ Count(calls, "render_begin_frame") = 1 => wait_flag = "true"
        /\ pc = "ready" =>
            /\ wait_flag # "none"
            /\ SubSeq(calls, 1, 3) = <<"sync_actions", "wait_frame", "locate_views">>
            /\ wait_flag = "true" => calls[Len(calls)] = "render_begin_frame"
            /\ wait_flag = "false" => Len(calls) = 3

\* C7 witness: a begin_frame call returned with should_render false.
C7_Witness ==
    /\ last_call = "begin_frame"
    /\ pc = "ready"
    /\ wait_flag = "false"
    /\ ~should_render
    /\ Len(calls) = 3

\* C8: every end_frame call makes the frame-end handshake exactly once; the renderer's
\* end_frame is invoked only when should_render is true, and then before the handshake.
C8_HandshakeAlways ==
    last_call = "end_frame" =>
        /\ Count(calls, "xr_end_frame") = 1
        /\ \A i \in 1..Len(calls) :
              calls[i] = "render_end_frame" =>
                  /\ should_render
                  /\ \A j \in 1..Len(calls) : calls[j] = "xr_end_frame" => i < j

\* C8 witness: an end_frame call made with should_render false.
C8_Witness ==
    /\ last_call = "end_frame"
    /\ ~should_render
    /\ calls = <<"xr_end_frame">>

\* C9: the handshake of end_frame is never made without a preceding unmatched
\* begin_frame, begin_frame is never made twice without an end_frame in between, and
\* no GPU finalization is issued in a frame whose should_render is false.
C9_StrictAlternation ==
    /\ last_frame_call = "end_frame" => prev_frame_call = "begin_frame"
    /\ last_frame_call = "begin_frame" => prev_frame_call # "begin_frame"
    /\ (last_call = "end_frame" /\ ~should_render) => Count(calls, "render_end_frame") = 0

(***************************************************************************)
(* Properties of the GPU resource arena                                    *)
(***************************************************************************)

\* C10: after a per-frame reset, N appends with N <= 10,000 return the slot indices
\* 0 .. N-1 in that order, each record standing at the index returned for it; an append
\* to a buffer that holds 10,000 records fails with a capacity error and leaves every
\* record as it was.
C10_DrawDataSlots ==
    LET data == draw_data_buffer.data
    IN  /\ \A i \in 1..Len(data) : data[i] = DrawData(i - 1)
        /\ pushes <= 10000 =>
              /\ Len(data) = pushes
              /\ pushes > 0 => (push_status = "ok" /\ push_index = pushes - 1)
        /\ pushes > 10000 =>
              /\ Len(data) = 10000
              /\ push_status = "capacity_error"

\* C10 witness: an append was refused by a buffer holding 10,000 records.
C10_Witness ==
    /\ push_status = "capacity_error"
    /\ Len(draw_data_buffer.data) = 10000
    /\ pushes = 10001

\* C11: the k-th write_texture_to_array call (k from 0) returned k and wrote its
\* image at slot k, where it still stands whatever frames were reset since;
\* texture_count is the number of calls made, no two calls got the same index, and
\* texture_count never decreases.
C11_TextureIndices ==
    /\ [](/\ texture_count = Len(texture_handles)
          /\ \A k \in 1..Len(texture_handles) :
                /\ texture_handles[k].index = k - 1
                /\ texture_descriptors[k - 1].view = texture_handles[k].view
          /\ \A j, k \in 1..Len(texture_handles) :
                j # k => texture_handles[j].index # texture_handles[k].index)
    /\ [][texture_count' >= texture_count]_vars

\* C11 witness: two textures were allocated, the first a cube map at index 0, and a
\* frame was then built on top of them.
C11_Witness ==
    /\ texture_count = 2
    /\ texture_handles[1] = [index |-> 0, view |-> 3]
    /\ texture_descriptors[0] = [view |-> 3, sampler |-> "cube_sampler"]
    /\ texture_handles[2].index = 1
    /\ pushes = 1

\* C12: right after Resources::new the material buffer holds the default material alone,
\* at index 0, and the draw-data, indirect-command, skins, vertex and index buffers are
\* empty; in every later state, frame resets included, slot 0 of the material buffer
\* holds the default material and a material added later got an index >= 1.
C12_DefaultMaterialReserved ==
    /\ resources_new =>
          /\ materials_buffer.data = <<"default">>
          /\ draw_data_buffer.data = <<>>
          /\ draw_indirect_buffer.data = <<>>
          /\ skins_buffer.data = <<>>
          /\ vertex_buffer.data = <<>>
          /\ index_buffer.data = <<>>
    /\ Len(materials_buffer.data) >= 1
    /\ materials_buffer.data[1] = "default"
    /\ material_index # -1 =>
          /\ material_index >= 1
          /\ material_index < Len(materials_buffer.data)

\* C13: Resources::new binds the draw-data buffer to binding 0, the material buffer to
\* 1, the indirect-command buffer to 2, the skins buffer to 3 and the scene-data buffer
\* to 4, each exactly once and no two to the same binding; the vertex and index buffers
\* are bound to none.
C13_DescriptorBindings ==
    LET writes == {descriptor_writes[i] : i \in 1..Len(descriptor_writes)}
    IN  /\ writes = { <<"draw_data_buffer", 0>>, <<"materials_buffer", 1>>,
                      <<"draw_indirect_buffer", 2>>, <<"skins_buffer", 3>>,
                      <<"scene_data_buffer", 4>> }
        /\ Len(descriptor_writes) = 5
        /\ \A i, j \in 1..Len(descriptor_writes) :
              i # j => /\ descriptor_writes[i][1] # descriptor_writes[j][1]
                       /\ descriptor_writes[i][2] # descriptor_writes[j][2]
        /\ \A i \in 1..Len(descriptor_writes) :
              descriptor_writes[i][1] \notin {"vertex_buffer", "index_buffer"}

\* C13 witness: the bindings written by Resources::new, seen once the arena is in use.
C13_Witness ==
    /\ descriptor_writes[3] = <<"draw_indirect_buffer", 2>>
    /\ descriptor_writes[5] = <<"scene_data_buffer", 4>>
    /\ texture_count = 1
    /\ material_index = 1

(***************************************************************************)
(* Properties of the haptic context                                        *)
(***************************************************************************)

\* C14: within a tick each hand's stored amplitude is the maximum of 0 and the
\* amplitudes requested for that hand (so it does not depend on their order); a request
\* for one hand leaves the other hand's amplitude alone, and no request lowers a
\* stored amplitude.
C14_MaxPerHand ==
    /\ [](/\ left_hand_amplitude_this_frame = MaxOf({0} \cup haptic_requested["Left"])
          /\ right_hand_amplitude_this_frame = MaxOf({0} \cup haptic_requested["Right"]))
    /\ [][\A h \in Hands :
            (haptic_requested'[h] # haptic_requested[h] /\ haptic_requested[h] \subseteq haptic_requested'[h]) =>
                /\ amplitude_of(h)' >= amplitude_of(h)
                /\ \A o \in Hands \ {h} :
                      /\ haptic_requested'[o] = haptic_requested[o]
                      /\ amplitude_of(o)' = amplitude_of(o)
         ]_vars

\* C14 witness: the right hand was asked 2 then 1 (or 1 then 2) and holds 2, the left
\* hand was asked a negative amplitude only and holds 0.
C14_Witness ==
    /\ haptic_requested["Right"] = {1, 2}
    /\ right_hand_amplitude_this_frame = 2
    /\ haptic_requested["Left"] = {-1}
    /\ left_hand_amplitude_this_frame = 0

\* C15: the driver is handed each hand's amplitude of the tick exactly once, namely the
\* maximum requested in that tick, and leaves both stored amplitudes at zero; nothing
\* of a tick carries over, so a stored amplitude never exceeds what was requested since.
C15_ResetEachTick ==
    /\ \A h \in Hands :
          /\ haptic_requested[h] = {} => amplitude_of(h) = 0
          /\ amplitude_of(h) <= MaxOf({0} \cup haptic_requested[h])
    /\ haptic_delivered # <<>> =>
          \A h \in Hands :
              /\ Cardinality({i \in 1..Len(haptic_delivered) : haptic_delivered[i][1] = h}) = 1
              /\ \A i \in 1..Len(haptic_delivered) :
                    haptic_delivered[i][1] = h => haptic_delivered[i][2] = haptic_expected[h]

\* C15 witness: the driver was handed 2 for the right hand, and in the following tick
\* the right hand was asked 1 and holds 1.
C15_Witness ==
    /\ haptic_delivered = << <<"Left", 0>>, <<"Right", 2>> >>
    /\ haptic_requested["Right"] = {1}
    /\ right_hand_amplitude_this_frame = 1

(***************************************************************************)
(* Properties of the transform sync                                        *)
(***************************************************************************)

\* A transform shows a simulated pose: same translation, and a rotation of norm one
\* that is the simulated quaternion scaled down by a positive factor.
ShowsPose(transform, position) ==
    /\ transform.translation = position.translation
    /\ quaternion_norm(transform.rotation) = 2
    /\ \E k \in 1..4 : \A i \in 1..4 : position.rotation[i] * 2 = k * transform.rotation[i]

\* C16: after a pass of update_rigid_body_transforms every entity holding a body and a
\* Transform shows the body's simulated position and its re-normalized orientation; a
\* pass changes neither the simulation, nor a scale, nor the Transform of an entity
\* without a body; and a further pass over an unchanged simulation changes nothing, so
\* the transform is the same after 1, 2, 3 or 4 ticks.
C16_TransformSync ==
    /\ [](sync_passes >= 1 =>
            \A e \in DOMAIN rigid_body_handle :
                ShowsPose(transforms[e], rigid_bodies[rigid_body_handle[e]].position))
    /\ [][sync_passes' > sync_passes =>
            /\ rigid_bodies' = rigid_bodies
            /\ \A e \in Entities : transforms'[e].scale = transforms[e].scale
            /\ transforms'["e3"] = transforms["e3"]
            /\ (sync_passes >= 1 => transforms' = transforms)
         ]_vars

\* C16 witness: a body sits at (1, 2, 3) with an orientation of norm 2, and after four
\* passes its entity shows (1, 2, 3) with that orientation at norm one.
C16_Witness ==
    /\ sync_passes = 4
    /\ rigid_bodies[1].position = [translation |-> <<1, 2, 3>>, rotation |-> <<2, 2, 2, 2>>]
    /\ transforms["e1"].translation = <<1, 2, 3>>
    /\ transforms["e1"].rotation = <<1, 1, 1, 1>>

(***************************************************************************)
(* Properties of the light constructors                                    *)
(***************************************************************************)

\* C17: a light built by none carries the sentinel 0xFFFFFFFF (both 16-bit words
\* 65535) and zero in every other
\* field; new_directional tags 0, new_point 1, new_spotlight 2; from_gltf tags
\* Directional, Point and Spot the same way; and only none yields the sentinel.
C17_LightTypes ==
    /\ light_ctor.name = "none" =>
          light = [direction |-> <<0, 0, 0>>, range |-> 0, color |-> <<0, 0, 0>>,
                   intensity |-> 0, position |-> <<0, 0, 0>>, inner_cone_cos |-> 0,
                   outer_cone_cos |-> 0, light_type |-> <<65535, 65535>>]
    /\ light_ctor.name = "new_directional" => light.light_type = <<0, 0>>
    /\ light_ctor.name = "new_point" => light.light_type = <<0, 1>>
    /\ light_ctor.name = "new_spotlight" => light.light_type = <<0, 2>>
    /\ light_ctor.name = "from_gltf" =>
          light.light_type = CASE light_ctor.kind = "Directional" -> <<0, 0>>
                               [] light_ctor.kind = "Point" -> <<0, 1>>
                               [] light_ctor.kind = "Spot" -> <<0, 2>>
    /\ light_ctor.name # "none" => light.light_type # <<65535, 65535>>

\* C17 witness: none has built a light and it carries the sentinel.
C17_Witness ==
    /\ light_ctor.name = "none"
    /\ light.light_type = <<65535, 65535>>

(***************************************************************************)
(* Further properties of Engine::update, begin_frame and end_frame         *)
(***************************************************************************)

\* C18: every update call returns after at most one wait: the blocking looper polls
\* and the sleep of the Idle arm it made number at most one, on every platform and in
\* every session state, resumed or not.
C18_AtMostOneWait ==
    UpdateReturned => looper_waits + Count(calls, "sleep") <= 1

\* C19: an update call that observed no new runtime event issues neither a session
\* begin nor an end-session.
C19_NoEventNoBeginNoEnd ==
    (PairObserved /\ polled[2] = 0) =>
        /\ Count(calls, "session_begin") = 0
        /\ Count(calls, "end_session") = 0

\* C20: in an end_frame call that follows a begin_frame call, the renderer's end_frame
\* is invoked if and only if that begin_frame call invoked the renderer's begin_frame;
\* and should_render is changed by begin_frame only, not by update nor by end_frame.
C20_RendererBalanced ==
    /\ []((last_call = "end_frame" /\ prev_frame_call = "begin_frame") =>
            (Count(calls, "render_end_frame") = 1 <=> render_begun))
    /\ []((last_call = "end_frame" /\ prev_frame_call = "begin_frame") =>
            Count(calls, "render_end_frame") <= 1)
    /\ [][should_render' # should_render => last_call' = "begin_frame"]_vars

\* C20 witness: an end_frame call closed a begin_frame call that had started the
\* renderer, and finalized it.
C20_Witness ==
    /\ last_call = "end_frame"
    /\ prev_frame_call = "begin_frame"
    /\ render_begun
    /\ calls = <<"render_end_frame", "xr_end_frame">>

(***************************************************************************)
(* Properties of the quit flag and of the returned pairs                   *)
(***************************************************************************)

\* A step of the Ctrl-C handler: the desktop build, and the tick thread does not move.
CtrlcStep ==
    /\ target_os = "desktop"
    /\ pc' = pc
    /\ last_call' = last_call
    /\ result' = result
    /\ session_state' = session_state

\* A step of process_android_events that matched a Destroy event.
DestroyStep ==
    /\ target_os = "android"
    /\ pc = "ready"
    /\ pc' = "android_processed"
    /\ android_seen' # <<>>
    /\ android_seen'[1] = "Destroy"

\* C21: the quit flag is false when the engine starts (on Android, unless Engine::new
\* has matched a Destroy event); it changes only to true, and only in a step of the
\* Ctrl-C handler or in a process_android_events call that matched Destroy, which
\* matches no further event in that call; and once an update call has returned
\* ShuttingDown from the quit check, the flag is set and every update call that
\* reaches the quit check returns ShuttingDown.
C21_QuitLatch ==
    /\ (should_quit <=> android_seen # <<>>)
    /\ [][should_quit' # should_quit => (should_quit' /\ (CtrlcStep \/ DestroyStep))]_vars
    /\ [](android_seen # <<>> => (android_seen = <<"Destroy">> /\ should_quit))
    /\ [](quit_returned => should_quit)
    /\ []((quit_returned /\ UpdateReturned /\ quit_loaded # "unreached") =>
            result = "ShuttingDown")

\* C21 witness: on Android an earlier call matched Destroy, and a later update call,
\* whose own platform events held no Destroy, returned ShuttingDown from the quit check.
C21_Witness ==
    /\ target_os = "android"
    /\ android_seen = <<>>
    /\ should_quit
    /\ quit_returned
    /\ UpdateReturned
    /\ quit_loaded = "true"
    /\ result = "ShuttingDown"

\* C22: the previous state of the pair an update call returns is the current state of
\* the pair the preceding successful update call returned. (A step that leaves the
\* quit flag alone and ends with update as the last call and Ok as its result is the
\* return of an update call, or changes nothing.)
C22_ReturnedPairsChain ==
    [][(/\ last_call' = "update"
        /\ result' = "Ok"
        /\ should_quit' = should_quit
        /\ ok_current \notin {"none", "unobserved"}) =>
            ret_pair'[1] = ok_current]_vars

(***************************************************************************)
(* Properties of the indirect-command buffer                               *)
(***************************************************************************)

\* C23: the indirect-command buffer is created with a capacity of 10,000, no less than
\* the draw-data buffer's 10,000; in a frame the two buffers hold as many elements, the
\* i-th record and the i-th command both standing at index i with the command built
\* for slot i; and the indirect-command buffer is never full while the draw-data
\* buffer has room.
C23_IndirectHoldsEveryDraw ==
    LET data == draw_data_buffer.data
        commands == draw_indirect_buffer.data
    IN  /\ draw_data_buffer.max_len = 10000
        /\ draw_indirect_buffer.max_len = 10000
        /\ draw_indirect_buffer.max_len >= draw_data_buffer.max_len
        /\ Len(commands) = Len(data)
        /\ \A i \in 1..Len(data) :
              /\ data[i] = DrawData(i - 1)
              /\ i <= Len(commands) => commands[i].draw_data_index = i - 1
        /\ buffer_has_room(draw_data_buffer) => buffer_has_room(draw_indirect_buffer)

\* C23 witness: a frame filled the draw-data buffer, the next primitive was refused,
\* and the indirect-command buffer holds the 10,000 commands.
C23_Witness ==
    /\ Len(draw_data_buffer.data) = 10000
    /\ Len(draw_indirect_buffer.data) = 10000
    /\ draw_indirect_buffer.data[10000].draw_data_index = 9999
    /\ push_status = "capacity_error"
====
